---- MODULE Spec2Model ----
(***************************************************************************)
(* Model of pkg/dao/rpm.go: the rpm DAO of content-sources-backend.        *)
(*                                                                         *)
(* The database is two tables: rpms (rows with a uuid and a checksum) and  *)
(* repositories_rpms (pairs of repository uuid and rpm uuid).  Every gorm  *)
(* statement of the DAO is one atomic step: the DAO opens no transaction,  *)
(* so the statements of one call interleave with those of another call and *)
(* a call that returns an error keeps what its earlier statements wrote.   *)
(* The tables carry the constraints the source names in its OnConflict     *)
(* clauses: rpms is unique on checksum, repositories_rpms is unique on the *)
(* pair.  No foreign key is modelled: none appears in the source.          *)
(*                                                                         *)
(* Spec     : one caller, one call at a time, every statement succeeds.    *)
(* SpecFail : one caller of InsertForRepository, any statement may fail.   *)
(* SpecConc : two calls of InsertForRepository whose statements interleave.*)
(* SpecRetry: SpecFail where the caller may call again after an error.    *)
(* SpecQuery: one caller of List and Search over tables nothing writes;    *)
(*            these read the tables repositories and                       *)
(*            repository_configurations as well.                           *)
(***************************************************************************)
EXTENDS Integers, Sequences, FiniteSets, TLC

\* ------------------------------------------------------------------ bounds
MaxChecksum == 2
MaxLen == 2

\* config.DefaultPagedRpmInsertsLimit, read at rpm.go:26
DefaultPagedRpmInsertsLimit == 100

Checksums == 1..MaxChecksum

\* Rows of the repositories table (suite_test.go creates two of them);
\* "r0" is a uuid no repository has.
Repositories == {"r1", "r2"}
RepoUuids == Repositories \cup {"r0"}

\* The rows suite_test.go creates: repoTest1 (here "r1") is public,
\* repoPrivateTest ("r2") is not, and repoConfigTest1 ("c1") is the
\* configuration of organization orgIdTest for repoTest1
orgIdTest == "acme"
UrlTest1 == "https://www.redhat.com"
UrlPrivateTest == "https://www.redhat.private.com"
repoTest1 == [url |-> UrlTest1, public |-> TRUE]
repoPrivateTest == [url |-> UrlPrivateTest, public |-> FALSE]
repositoriesTest == [repo \in Repositories |-> IF repo = "r1" THEN repoTest1 ELSE repoPrivateTest]
repoConfigTest1 == [uuid |-> "c1", org_id |-> orgIdTest, repository_uuid |-> "r1"]

Procs == {1, 2}

RECURSIVE SeqsUpTo(_)
\* The sequences of at most n checksums
SeqsUpTo(n) ==
    IF n = 0 THEN {<<>>}
    ELSE LET shorter == SeqsUpTo(n - 1)
         IN shorter \cup {Append(s, c) : s \in {t \in shorter : Len(t) = n - 1},
                                         c \in Checksums}

\* The manifests ([]yum.Package, each reduced to its Checksum.Value); a
\* checksum may repeat
Manifests == SeqsUpTo(MaxLen)

Range(s) == {s[k] : k \in 1..Len(s)}

VARIABLES
    rpms,                  \* table rpms: set of [uuid, checksum]
    repositories_rpms,     \* table repositories_rpms: set of <<repository_uuid, rpm_uuid>>
    repositories,          \* table repositories: repository uuid -> [url, public]
    repository_configurations,  \* table repository_configurations: set of [uuid, org_id, repository_uuid]
    pagedRpmInsertsLimit,  \* rpmDaoImpl.pagedRpmInsertsLimit
    call,                  \* per caller: the running call, its locals and its position
    rpms0,                 \* rpms when the running calls started
    repositories_rpms0,    \* repositories_rpms when the running calls started
    repeat                 \* the running call repeats the call that returned just before it

vars == <<rpms, repositories_rpms, repositories, repository_configurations,
          pagedRpmInsertsLimit, call, rpms0, repositories_rpms0, repeat>>

\* ------------------------------------------------------------- GetRpmDao
GetRpmDao(value) ==
    IF value > 0 THEN value ELSE DefaultPagedRpmInsertsLimit

\* The values options.PagedRpmInsertsLimit (or the configuration) may hold: 0
\* (the default then applies, and every list goes in one chunk) and the sizes
\* that split a list of MaxLen rows
OptionValues == 0..(MaxLen - 1)

\* ------------------------------------------------------------ uuids
\* models.Rpm gets a new uuid when it is created.  A new uuid is one that
\* occurs nowhere: the least number not in `used`.
Fresh(used) ==
    CHOOSE u \in 1..(Cardinality(used) + 1) :
        u \notin used /\ \A v \in 1..(u - 1) : v \in used

UuidsOfRpms(t) == {r.uuid : r \in t}
UuidsOfRepositoriesRpms(t) == {m[2] : m \in t}

\* The locals of a call that has not started.  created is no local of the code:
\* it records the rows the call's inserts created, the rows RowsAffected counts
NoCall ==
    [op |-> "none", pc |-> "idle", repoUuid |-> "r0", pkgs |-> <<>>,
     dbPkgs |-> <<>>, i |-> 0, rowsAffected |-> 0, rpmUuids |-> {},
     rpmsToDelete |-> {}, dangling_rpm_uuids |-> {}, err |-> "nil",
     created |-> {}]

UuidsOfCall(c) ==
    c.rpmUuids \cup c.rpmsToDelete \cup c.dangling_rpm_uuids \cup UuidsOfRpms(c.created)

\* Every uuid that occurs in the tables or in the locals of a call
UsedUuids ==
    UuidsOfRpms(rpms) \cup UuidsOfRepositoriesRpms(repositories_rpms)
    \cup UNION {UuidsOfCall(call[p]) : p \in Procs}

\* ------------------------------------------------------- pure helpers
\* stringInSlice; the list is a result of Pluck, kept as the set of its values
stringInSlice(a, list) == a \in list

RECURSIVE FilteredConvert(_, _)
\* FilteredConvert: the packages whose checksum is not excluded, in order
FilteredConvert(yumPkgs, excludeChecksums) ==
    IF yumPkgs = <<>> THEN <<>>
    ELSE IF ~stringInSlice(Head(yumPkgs), excludeChecksums)
         THEN <<Head(yumPkgs)>> \o FilteredConvert(Tail(yumPkgs), excludeChecksums)
         ELSE FilteredConvert(Tail(yumPkgs), excludeChecksums)

differenceAll(a, b) == a
differenceSwapped(a, b) == {x \in b : x \notin a}
\* difference (a - b); the results of Pluck are used as sets only
difference(a, b) == {x \in a : x \notin b}

\* prepRepositoryRpms: one RepositoryRpm per rpm uuid
prepRepositoryRpms(repo, rpm_uuids) == {<<repo, u>> : u \in rpm_uuids}

\* --------------------------------------------------- database statements
RECURSIVE CreateRpms(_, _, _, _)
\* db.Clauses(clause.OnConflict{Columns: checksum, DoNothing: true}).Create(rows)
\* on table rpms, unique on checksum.  Each row gets a new uuid; a row whose
\* checksum is already in the table (or earlier in the statement) is skipped
\* when doNothing, and fails the statement otherwise.
CreateRpms(table, rows, used, doNothing) ==
    IF rows = <<>> THEN [rpms |-> table, RowsAffected |-> 0, Error |-> "nil"]
    ELSE IF \E r \in table : r.checksum = Head(rows)
         THEN IF doNothing
              THEN CreateRpms(table, Tail(rows), used, doNothing)
              ELSE [rpms |-> table, RowsAffected |-> 0, Error |-> "duplicate key"]
         ELSE LET u == Fresh(used \cup UuidsOfRpms(table))
                  rest == CreateRpms(table \cup {[uuid |-> u, checksum |-> Head(rows)]},
                                     Tail(rows), used \cup {u}, doNothing)
              IN [rest EXCEPT !.RowsAffected = IF rest.Error = "nil" THEN @ + 1 ELSE 0]

\* db.Clauses(clause.OnConflict{Columns: repository_uuid, rpm_uuid, DoNothing: true}).
\* Create(&associations) on table repositories_rpms, unique on the pair.
\* gorm refuses an empty slice (gorm.ErrEmptySlice).
CreateRepositoryRpms(table, rows, doNothing) ==
    IF rows = {} THEN [repositories_rpms |-> table, Error |-> "empty slice found"]
    ELSE IF ~doNothing /\ rows \cap table # {}
         THEN [repositories_rpms |-> table, Error |-> "duplicate key"]
         ELSE [repositories_rpms |-> table \cup rows, Error |-> "nil"]

\* ---------------------------------------- the statements of the two calls
\* A statement maps the tables w = [rpms, repositories_rpms] and the call's
\* locals c to the tables and locals after it.

After(w, c) == [rpms |-> w.rpms, repositories_rpms |-> w.repositories_rpms, c |-> c]

\* rpm.go:263-274: Pluck the manifest checksums present in rpms, FilteredConvert;
\* rpm.go:207-209: PagedRpmInsert returns at once on an empty list
ExistingChecksums(w, c) ==
    LET checksums == Range(c.pkgs)
        existingChecksums == {r.checksum : r \in {x \in w.rpms : x.checksum \in checksums}}
        dbPkgs == FilteredConvert(c.pkgs, existingChecksums)
    IN After(w, [c EXCEPT !.dbPkgs = dbPkgs, !.i = 0, !.rowsAffected = 0,
                          !.pc = IF Len(dbPkgs) = 0 THEN "rpmUuids" ELSE "insert"])

ChunkEndShort(i, chunk, len) == IF i + chunk > len THEN len ELSE i + chunk - 1
\* rpm.go:212-215: the end of the chunk that starts at i
ChunkEnd(i, chunk, len) == IF i + chunk > len THEN len ELSE i + chunk

InsertRpmsNoOnConflict(table, rows, used) == CreateRpms(table, rows, used, FALSE)
RECURSIVE InsertRpmsConflictOnUuid(_, _, _)
InsertRpmsConflictOnUuid(table, rows, used) ==
    IF rows = <<>> THEN [rpms |-> table, RowsAffected |-> 0, Error |-> "nil"]
    ELSE LET u == Fresh(used \cup UuidsOfRpms(table))
             rest == InsertRpmsConflictOnUuid(table \cup {[uuid |-> u, checksum |-> Head(rows)]},
                                              Tail(rows), used \cup {u})
         IN [rest EXCEPT !.RowsAffected = @ + 1]
\* rpm.go:216-219: the insert of one chunk
InsertRpms(table, rows, used) == CreateRpms(table, rows, used, TRUE)

\* rpm.go:211-226: one turn of the loop of PagedRpmInsert
InsertChunk(w, c, limit, used) ==
    LET len == Len(c.dbPkgs)
        end == ChunkEnd(c.i, limit, len)
        result == InsertRpms(w.rpms, SubSeq(c.dbPkgs, c.i + 1, end), used)
    IN IF result.Error # "nil"
       THEN After(w, [c EXCEPT !.pc = "done", !.err = "PagedRpmInsert"])
       ELSE After([w EXCEPT !.rpms = result.rpms],
                  [c EXCEPT !.rowsAffected = @ + result.RowsAffected,
                            !.created = @ \cup (result.rpms \ w.rpms),
                            !.i = @ + limit,
                            !.pc = IF c.i + limit < len THEN "insert"
                                   ELSE IF c.op = "InsertForRepository" THEN "rpmUuids"
                                   ELSE "done"])

\* rpm.go:281-288: the uuids of the rpms whose checksum is in the manifest
RpmUuids(w, c) ==
    After(w, [c EXCEPT !.rpmUuids = {r.uuid : r \in {x \in w.rpms : x.checksum \in Range(c.pkgs)}},
                       !.pc = "existingRpmUuids"])

\* rpm.go:341-349: the rpm uuids associated to the repository, less the wanted ones
ExistingRpmUuids(w, c) ==
    LET existing_rpm_uuids == {m[2] : m \in {x \in w.repositories_rpms : x[1] = c.repoUuid}}
    IN After(w, [c EXCEPT !.rpmsToDelete = difference(existing_rpm_uuids, c.rpmUuids),
                          !.pc = "deleteRepositoryRpms"])

\* DeleteRepositoryRpms, except that the delete has no condition on the repository
DeleteRepositoryRpmsOfAll(w, c) ==
    After([w EXCEPT !.repositories_rpms = {m \in @ : m[2] \notin c.rpmsToDelete}],
          [c EXCEPT !.pc = "danglingRpmUuids"])

\* rpm.go:351-359: delete the associations of the unneeded rpms
DeleteRepositoryRpms(w, c) ==
    After([w EXCEPT !.repositories_rpms =
               {m \in @ : ~(m[1] = c.repoUuid /\ m[2] \in c.rpmsToDelete)}],
          [c EXCEPT !.pc = "danglingRpmUuids"])

DanglingIgnoringAssociations(table_rpms, table_repositories_rpms, rpmsToDelete) ==
    {r.uuid : r \in {x \in table_rpms : x.uuid \in rpmsToDelete}}
\* rpm.go:361-370: the rpms among rpmsToDelete that no association references
Dangling(table_rpms, table_repositories_rpms, rpmsToDelete) ==
    {r.uuid : r \in {x \in table_rpms :
                        /\ x.uuid \in rpmsToDelete
                        /\ ~\E m \in table_repositories_rpms : m[2] = x.uuid}}

\* rpm.go:361-374
DanglingRpmUuids(w, c) ==
    LET dangling_rpm_uuids == Dangling(w.rpms, w.repositories_rpms, c.rpmsToDelete)
    IN After(w, [c EXCEPT !.dangling_rpm_uuids = dangling_rpm_uuids,
                          !.pc = IF dangling_rpm_uuids = {} THEN "createAssociations"
                                 ELSE "deleteRpms"])

\* rpm.go:376-385: remove the dangling rpms
DeleteRpms(w, c) ==
    After([w EXCEPT !.rpms = {r \in @ : r.uuid \notin c.dangling_rpm_uuids}],
          [c EXCEPT !.pc = "createAssociations"])

\* rpm.go:295-305: add the associations of the wanted rpms
CreateAssociations(w, c) ==
    LET associations == prepRepositoryRpms(c.repoUuid, c.rpmUuids)
        result == CreateRepositoryRpms(w.repositories_rpms, associations, TRUE)
    IN After([w EXCEPT !.repositories_rpms = result.repositories_rpms],
             [c EXCEPT !.pc = "done",
                       !.err = IF result.Error # "nil" THEN "Create" ELSE "nil"])

\* The statement at which the call stands
Exec(w, c, limit, used) ==
    CASE c.pc = "existingChecksums" -> ExistingChecksums(w, c)
      [] c.pc = "insert" -> InsertChunk(w, c, limit, used)
      [] c.pc = "rpmUuids" -> RpmUuids(w, c)
      [] c.pc = "existingRpmUuids" -> ExistingRpmUuids(w, c)
      [] c.pc = "deleteRepositoryRpms" -> DeleteRepositoryRpms(w, c)
      [] c.pc = "danglingRpmUuids" -> DanglingRpmUuids(w, c)
      [] c.pc = "deleteRpms" -> DeleteRpms(w, c)
      [] c.pc = "createAssociations" -> CreateAssociations(w, c)

\* rpm.go:244-255: InsertForRepository is called; fetchRepo finds the repository or not
InsertForRepository(repoUuid, pkgs) ==
    IF repoUuid \in Repositories
    THEN [NoCall EXCEPT !.op = "InsertForRepository", !.pc = "existingChecksums",
                        !.repoUuid = repoUuid, !.pkgs = pkgs]
    ELSE [NoCall EXCEPT !.op = "InsertForRepository", !.pc = "done",
                        !.repoUuid = repoUuid, !.pkgs = pkgs, !.err = "fetchRepo"]

\* rpm.go:203-209: PagedRpmInsert is called
PagedRpmInsert(pkgs) ==
    [NoCall EXCEPT !.op = "PagedRpmInsert", !.pkgs = pkgs, !.dbPkgs = pkgs,
                   !.pc = IF Len(pkgs) = 0 THEN "done" ELSE "insert"]

RECURSIVE Run(_, _, _, _)
\* A call run from its position to its return with no other call in between
Run(w, c, limit, reserved) ==
    IF c.pc = "done" THEN After(w, c)
    ELSE LET r == Exec(w, c, limit,
                       reserved \cup UuidsOfRpms(w.rpms)
                       \cup UuidsOfRepositoriesRpms(w.repositories_rpms) \cup UuidsOfCall(c))
         IN Run([rpms |-> r.rpms, repositories_rpms |-> r.repositories_rpms], r.c, limit, reserved)

\* ------------------------------------------------------------ the actions
World == [rpms |-> rpms, repositories_rpms |-> repositories_rpms]

Returned(p) == call[p].pc \in {"idle", "done"}

Init ==
    /\ rpms = {}
    /\ repositories_rpms = {}
    /\ repositories = repositoriesTest
    /\ repository_configurations = {repoConfigTest1}
    /\ pagedRpmInsertsLimit \in {GetRpmDao(value) : value \in OptionValues}
    /\ call = [p \in Procs |-> NoCall]
    /\ rpms0 = {}
    /\ repositories_rpms0 = {}
    /\ repeat = FALSE

\* A caller calls InsertForRepository while no call is running
CallInsertForRepository(p) ==
    /\ \A q \in Procs : call[q].pc = "idle"
    /\ \E repoUuid \in RepoUuids, pkgs \in Manifests :
          call' = [call EXCEPT ![p] = InsertForRepository(repoUuid, pkgs)]
    /\ UNCHANGED <<rpms, repositories_rpms, repositories, repository_configurations, pagedRpmInsertsLimit, rpms0, repositories_rpms0, repeat>>

\* A caller calls PagedRpmInsert while no call is running
CallPagedRpmInsert(p) ==
    /\ \A q \in Procs : call[q].pc = "idle"
    /\ \E pkgs \in Manifests :
          call' = [call EXCEPT ![p] = PagedRpmInsert(pkgs)]
    /\ UNCHANGED <<rpms, repositories_rpms, repositories, repository_configurations, pagedRpmInsertsLimit, rpms0, repositories_rpms0, repeat>>

\* The caller whose call of InsertForRepository has returned calls it again
\* with the same repository and manifest
Repeat(p) ==
    /\ call[p].op = "InsertForRepository"
    /\ call[p].pc = "done"
    /\ ~repeat
    /\ call' = [call EXCEPT ![p] = InsertForRepository(call[p].repoUuid, call[p].pkgs)]
    /\ repeat' = TRUE
    /\ rpms0' = rpms
    /\ repositories_rpms0' = repositories_rpms
    /\ UNCHANGED <<rpms, repositories_rpms, repositories, repository_configurations, pagedRpmInsertsLimit>>

\* The caller takes the result of its call; the locals of the call are gone
Return(p) ==
    /\ call[p].pc = "done"
    /\ call' = [call EXCEPT ![p] = NoCall]
    /\ repeat' = FALSE
    /\ rpms0' = rpms
    /\ repositories_rpms0' = repositories_rpms
    /\ UNCHANGED <<rpms, repositories_rpms, repositories, repository_configurations, pagedRpmInsertsLimit>>

\* The manifests of two calls that run at the same time: those that repeat no
\* checksum, in ascending order (the store treats all checksums alike)
ConcurrentManifests == {s \in Manifests : \A k \in 1..(Len(s) - 1) : s[k] < s[k + 1]}

\* Two callers call InsertForRepository at the same time, the first for "r1"
\* (the repositories are interchangeable), the second for any repository
CallBoth ==
    /\ \A q \in Procs : call[q].pc = "idle"
    /\ \E pkgs1, pkgs2 \in ConcurrentManifests, repoUuid2 \in Repositories :
          call' = [call EXCEPT ![1] = InsertForRepository("r1", pkgs1),
                               ![2] = InsertForRepository(repoUuid2, pkgs2)]
    /\ UNCHANGED <<rpms, repositories_rpms, repositories, repository_configurations, pagedRpmInsertsLimit, rpms0, repositories_rpms0, repeat>>

\* The tables and the locals of p become those of r, the result of a statement
Becomes(p, r) ==
    /\ rpms' = r.rpms
    /\ repositories_rpms' = r.repositories_rpms
    /\ call' = [call EXCEPT ![p] = r.c]

DoExistingChecksums(p) ==
    /\ call[p].pc = "existingChecksums"
    /\ Becomes(p, ExistingChecksums(World, call[p]))
    /\ UNCHANGED <<repositories, repository_configurations, pagedRpmInsertsLimit, rpms0, repositories_rpms0, repeat>>

DoInsertChunk(p) ==
    /\ call[p].pc = "insert"
    /\ Becomes(p, InsertChunk(World, call[p], pagedRpmInsertsLimit, UsedUuids))
    /\ UNCHANGED <<repositories, repository_configurations, pagedRpmInsertsLimit, rpms0, repositories_rpms0, repeat>>

DoRpmUuids(p) ==
    /\ call[p].pc = "rpmUuids"
    /\ Becomes(p, RpmUuids(World, call[p]))
    /\ UNCHANGED <<repositories, repository_configurations, pagedRpmInsertsLimit, rpms0, repositories_rpms0, repeat>>

DoExistingRpmUuids(p) ==
    /\ call[p].pc = "existingRpmUuids"
    /\ Becomes(p, ExistingRpmUuids(World, call[p]))
    /\ UNCHANGED <<repositories, repository_configurations, pagedRpmInsertsLimit, rpms0, repositories_rpms0, repeat>>

DoDeleteRepositoryRpms(p) ==
    /\ call[p].pc = "deleteRepositoryRpms"
    /\ Becomes(p, DeleteRepositoryRpms(World, call[p]))
    /\ UNCHANGED <<repositories, repository_configurations, pagedRpmInsertsLimit, rpms0, repositories_rpms0, repeat>>

DoDanglingRpmUuids(p) ==
    /\ call[p].pc = "danglingRpmUuids"
    /\ Becomes(p, DanglingRpmUuids(World, call[p]))
    /\ UNCHANGED <<repositories, repository_configurations, pagedRpmInsertsLimit, rpms0, repositories_rpms0, repeat>>

DoDeleteRpms(p) ==
    /\ call[p].pc = "deleteRpms"
    /\ Becomes(p, DeleteRpms(World, call[p]))
    /\ UNCHANGED <<repositories, repository_configurations, pagedRpmInsertsLimit, rpms0, repositories_rpms0, repeat>>

DoCreateAssociations(p) ==
    /\ call[p].pc = "createAssociations"
    /\ Becomes(p, CreateAssociations(World, call[p]))
    /\ UNCHANGED <<repositories, repository_configurations, pagedRpmInsertsLimit, rpms0, repositories_rpms0, repeat>>

\* The wrapped error InsertForRepository returns when the statement at pc fails
ErrorAt(pc) ==
    CASE pc = "existingChecksums" -> "existing checksum"
      [] pc = "insert" -> "PagedRpmInsert"
      [] pc = "rpmUuids" -> "rpms.uuid"
      [] pc \in {"existingRpmUuids", "deleteRepositoryRpms", "danglingRpmUuids", "deleteRpms"}
           -> "deleteUnneeded"
      [] pc = "createAssociations" -> "Create"

\* Fail, except that the call returns the count 0 with its error
FailCountLost(p) ==
    /\ ~Returned(p)
    /\ call' = [call EXCEPT ![p] = [@ EXCEPT !.pc = "done", !.err = ErrorAt(call[p].pc),
                                              !.rowsAffected = 0]]
    /\ UNCHANGED <<rpms, repositories_rpms, repositories, repository_configurations, pagedRpmInsertsLimit, rpms0, repositories_rpms0, repeat>>

\* The statement at which the call of p stands fails (the store returns an
\* error, or the process stops): the statement writes nothing and the call
\* returns its error
Fail(p) ==
    /\ ~Returned(p)
    /\ call' = [call EXCEPT ![p] = [@ EXCEPT !.pc = "done", !.err = ErrorAt(call[p].pc)]]
    /\ UNCHANGED <<rpms, repositories_rpms, repositories, repository_configurations, pagedRpmInsertsLimit, rpms0, repositories_rpms0, repeat>>

Statements(p) ==
    \/ DoExistingChecksums(p)
    \/ DoInsertChunk(p)
    \/ DoRpmUuids(p)
    \/ DoExistingRpmUuids(p)
    \/ DoDeleteRepositoryRpms(p)
    \/ DoDanglingRpmUuids(p)
    \/ DoDeleteRpms(p)
    \/ DoCreateAssociations(p)

\* One caller, one call at a time, every statement succeeds
Next ==
    \/ CallInsertForRepository(1)
    \/ CallPagedRpmInsert(1)
    \/ Statements(1)
    \/ Repeat(1)
    \/ Return(1)

Spec == Init /\ [][Next]_vars

\* One caller of InsertForRepository, one call at a time, any statement may fail
NextFail ==
    \/ CallInsertForRepository(1)
    \/ Statements(1)
    \/ Fail(1)
    \/ Return(1)

SpecFail == Init /\ [][NextFail]_vars

\* The caller whose call of InsertForRepository returned an error of a statement
\* after PagedRpmInsert calls it again with the same repository and manifest;
\* rpms0 and repositories_rpms0 stay the tables before the call that failed
Retry(p) ==
    /\ call[p].op = "InsertForRepository"
    /\ call[p].pc = "done"
    /\ call[p].err \in {"rpms.uuid", "deleteUnneeded", "Create"}
    /\ ~repeat
    /\ call' = [call EXCEPT ![p] = InsertForRepository(call[p].repoUuid, call[p].pkgs)]
    /\ repeat' = TRUE
    /\ UNCHANGED <<rpms, repositories_rpms, repositories, repository_configurations, pagedRpmInsertsLimit, rpms0, repositories_rpms0>>

\* One caller of InsertForRepository, any statement may fail, and the caller
\* may call again after an error
NextRetry ==
    \/ CallInsertForRepository(1)
    \/ Statements(1)
    \/ Fail(1)
    \/ Retry(1)
    \/ Return(1)

SpecRetry == Init /\ [][NextRetry]_vars

\* The tables after InsertForRepository ran alone for each repository, from
\* the empty tables; the calls return before two callers call at the same time
SyncedTables ==
    {LET first == Run([rpms |-> {}, repositories_rpms |-> {}],
                      InsertForRepository("r1", pkgs1), DefaultPagedRpmInsertsLimit, {})
         second == Run([rpms |-> first.rpms, repositories_rpms |-> first.repositories_rpms],
                       InsertForRepository("r2", pkgs2), DefaultPagedRpmInsertsLimit, {})
     IN [rpms |-> second.rpms, repositories_rpms |-> second.repositories_rpms] :
     pkgs1, pkgs2 \in ConcurrentManifests}

InitConc ==
    /\ \E w \in SyncedTables :
          /\ rpms = w.rpms
          /\ repositories_rpms = w.repositories_rpms
          /\ rpms0 = w.rpms
          /\ repositories_rpms0 = w.repositories_rpms
    /\ repositories = repositoriesTest
    /\ repository_configurations = {repoConfigTest1}
    /\ pagedRpmInsertsLimit \in {GetRpmDao(value) : value \in OptionValues}
    /\ call = [p \in Procs |-> NoCall]
    /\ repeat = FALSE

\* Two callers whose statements interleave, every statement succeeds
NextConc ==
    \/ CallBoth
    \/ \E p \in Procs : Statements(p)

SpecConc == InitConc /\ [][NextConc]_vars

\* ------------------------------------------------------------ List, Search
\* List and Search only read the tables.  In the tables they read, a row of
\* rpms also has the name, the epoch and the summary that FilteredConvert
\* copied from the yum package (rpm.go:404-412); InsertForRepository never
\* reads these, and the tables of its specifications leave them out.
MaxPackage == 3

\* A name is a sequence of characters; the packages 1..MaxPackage are two of
\* name "a" (epochs 2 and 1), one of name "ab", and any further ones of name "b"
NameOf(k) == IF k <= 2 THEN <<"a">> ELSE IF k = 3 THEN <<"a", "b">> ELSE <<"b">>
EpochOf(k) == IF k = 1 THEN 2 ELSE IF k <= 3 THEN 1 ELSE k - 3
RpmOf(k) == [uuid |-> k, checksum |-> k, name |-> NameOf(k), epoch |-> EpochOf(k),
             summary |-> <<"summary", k>>]

\* The organizations that call; "" is the orgID of a request without one
OrgIds == {"", orgIdTest, "other"}
\* The uuids of repository configurations; no configuration has "c0"
ConfigUuids == {"c0", "c1", "c2"}
\* The values of request.URLs and request.Search
RequestURLs == {<<>>, <<UrlTest1>>, <<UrlTest1 \o "/">>, <<UrlTest1, UrlPrivateTest>>}
Searches == {<<>>, <<"a">>, <<"_", "b">>}
Limits == 1..MaxLen
Offsets == {0, 1}

\* The position of a character in the collation of the database
Collation(ch) == CASE ch = "_" -> 0 [] ch = "a" -> 1 [] ch = "b" -> 2

RECURSIVE NameBefore(_, _)
\* rpms.name ASC: s sorts strictly before t
NameBefore(s, t) ==
    IF t = <<>> THEN FALSE
    ELSE IF s = <<>> THEN TRUE
    ELSE IF Head(s) = Head(t) THEN NameBefore(Tail(s), Tail(t))
    ELSE Collation(Head(s)) < Collation(Head(t))

RECURSIVE Like(_, _)
\* The LIKE of the database: % stands for any characters, _ for any one
Like(s, pattern) ==
    IF pattern = <<>> THEN s = <<>>
    ELSE IF Head(pattern) = "%"
         THEN Like(s, Tail(pattern)) \/ (s # <<>> /\ Like(Tail(s), pattern))
    ELSE /\ s # <<>>
         /\ Head(pattern) = "_" \/ Head(pattern) = Head(s)
         /\ Like(Tail(s), Tail(pattern))

\* rpm.go:49-63
isOwnedRepositoryOfAnyone(orgID, repositoryConfigUUID) ==
    Cardinality({c \in repository_configurations : c.uuid = repositoryConfigUUID}) # 0
isOwnedRepository(orgID, repositoryConfigUUID) ==
    Cardinality({c \in repository_configurations :
                    c.org_id = orgID /\ c.uuid = repositoryConfigUUID}) # 0

\* rpm.go:134-145
modelToApiFields(in) ==
    [UUID |-> in.uuid, Name |-> in.name, Epoch |-> in.epoch, Summary |-> in.summary,
     Checksum |-> in.checksum]

\* rpm.go:117-123
RepositoryRpmListFromModelToResponse(repoRpm) ==
    [k \in 1..Len(repoRpm) |-> modelToApiFields(repoRpm[k])]

\* The orders in which a query without ORDER BY may return the rows
Orders(rows) ==
    {s \in [1..Cardinality(rows) -> rows] : \A j, k \in 1..Cardinality(rows) : s[j] = s[k] => j = k}

Min(a, b) == IF a < b THEN a ELSE b

\* OFFSET and LIMIT on the rows in the order the database returns them
OffsetLimit(s, offset, limit) == SubSeq(s, offset + 1, Min(offset + limit, Len(s)))

\* The call record with which List or Search returns
Reply(op, args, data, count, err) ==
    [op |-> op, pc |-> "done", args |-> args, data |-> data, totalRpms |-> count, err |-> err]

\* rpm.go:65-115: the replies List may return (the rows have no ORDER BY)
List(orgID, repositoryConfigUUID, limit, offset) ==
    LET args == [orgID |-> orgID, repositoryConfigUUID |-> repositoryConfigUUID,
                 limit |-> limit, offset |-> offset]
    IN IF orgID = ""
       THEN {Reply("List", args, <<>>, 0, "orgID can not be an empty string")}
       ELSE IF ~isOwnedRepository(orgID, repositoryConfigUUID)
       THEN {Reply("List", args, <<>>, 0, "is not owned")}
       ELSE LET repositoryConfig ==
                    CHOOSE c \in repository_configurations : c.uuid = repositoryConfigUUID
                repoRpms == {r \in rpms :
                                \E m \in repositories_rpms :
                                   /\ r.uuid = m[2]
                                   /\ m[1] = repositoryConfig.repository_uuid}
            IN {Reply("List", args,
                      RepositoryRpmListFromModelToResponse(OffsetLimit(order, offset, limit)),
                      Cardinality(repoRpms), "nil") : order \in Orders(repoRpms)}

\* rpm.go:156-162, without the candidate with the "/" appended
CandidatesExact(URLs) == URLs
\* rpm.go:156-162: each URL of the request and the same URL with "/" appended
Candidates(URLs) ==
    [k \in 1..(2 * Len(URLs)) |->
        IF k % 2 = 1 THEN URLs[(k + 1) \div 2] ELSE URLs[k \div 2] \o "/"]

\* rpm.go:181 and 187, without the condition on the organization and on public
OrGroupAll(orgID, repository_uuid) == TRUE
\* rpm.go:181 and 187 over the left join of rpm.go:186:
\* repository_configurations.org_id = ? OR repositories.public
OrGroup(orgID, repository_uuid) ==
    \/ \E c \in repository_configurations :
          c.repository_uuid = repository_uuid /\ c.org_id = orgID
    \/ repositories[repository_uuid].public

\* rpm.go:182-189: the rows of rpms that the joins and the conditions keep
SearchRows(orgID, request, urls) ==
    {r \in rpms :
        \E m \in repositories_rpms :
           /\ m[2] = r.uuid
           /\ m[1] \in DOMAIN repositories
           /\ OrGroup(orgID, m[1])
           /\ Like(r.name, request.Search \o <<"%">>)
           /\ repositories[m[1]].url \in Range(urls)}

\* rpm.go:164-177: DISTINCT ON in the statement the comment gives, ordered by
\* rpms.name, rpms.epoch DESC: the row of the highest epoch for each name
DistinctOnNameEpochDesc(rows) ==
    {{r \in rows : \A q \in rows : q.name = r.name => q.epoch <= r.epoch}}
\* rpm.go:182 and 190: DISTINCT ON(rpms.name) keeps the first row of each name
\* in the order of ORDER BY; the order is by name only, so the row it keeps for
\* a name is any of the rows of that name
DistinctOnName(rows) ==
    {kept \in SUBSET rows :
        \A r \in rows : Cardinality({q \in kept : q.name = r.name}) = 1}

RECURSIVE OrderByName(_)
\* rpm.go:190: the rows, whose names differ, by name ascending
OrderByName(rows) ==
    IF rows = {} THEN <<>>
    ELSE LET first == CHOOSE r \in rows : \A q \in rows : ~NameBefore(q.name, r.name)
         IN <<first>> \o OrderByName(rows \ {first})

\* rpm.go:182 and 192: Scan into api.SearchRpmResponse
Scan(s) == [k \in 1..Len(s) |-> [package_name |-> s[k].name, summary |-> s[k].summary]]

\* rpm.go:147-199: the replies Search may return
Search(orgID, request, limit) ==
    LET args == [orgID |-> orgID, request |-> request, limit |-> limit]
    IN IF orgID = ""
       THEN {Reply("Search", args, <<>>, 0, "orgID can not be an empty string")}
       ELSE IF Len(request.URLs) = 0
       THEN {Reply("Search", args, <<>>, 0, "request.URLs must contain at least 1 URL")}
       ELSE LET urls == Candidates(request.URLs)
            IN {Reply("Search", args, Scan(OffsetLimit(OrderByName(kept), 0, limit)), 0, "nil") :
                  kept \in DistinctOnName(SearchRows(orgID, request, urls))}

\* The tables List and Search read: repoTest1 is public or not and its url is
\* stored with or without a "/" at its end, repoPrivateTest is not public; the
\* configuration "c1" of orgIdTest is for one of the repositories, or there is
\* none; the configuration "c2" of the organization "other" is for
\* repoPrivateTest, or there is none; each package is in rpms with an
\* association to one or both of the repositories, or not in rpms
InitQuery ==
    /\ \E in \in [1..MaxPackage -> SUBSET Repositories] :
          /\ rpms = {RpmOf(k) : k \in {j \in 1..MaxPackage : in[j] # {}}}
          /\ repositories_rpms = {m \in Repositories \X (1..MaxPackage) : m[1] \in in[m[2]]}
    /\ \E url \in {UrlTest1, UrlTest1 \o "/"}, public \in BOOLEAN :
          repositories = [repositoriesTest EXCEPT !["r1"] = [url |-> url, public |-> public]]
    /\ \E c1 \in {{}} \cup {{[repoConfigTest1 EXCEPT !.repository_uuid = repo]} : repo \in Repositories},
          c2 \in {{}, {[uuid |-> "c2", org_id |-> "other", repository_uuid |-> "r2"]}} :
          repository_configurations = c1 \cup c2
    /\ pagedRpmInsertsLimit = DefaultPagedRpmInsertsLimit
    /\ call = [p \in Procs |-> NoCall]
    /\ rpms0 = rpms
    /\ repositories_rpms0 = repositories_rpms
    /\ repeat = FALSE

\* A caller calls List and List returns
DoList(p) ==
    /\ call[p].pc = "idle"
    /\ \E orgID \in OrgIds, repositoryConfigUUID \in ConfigUuids, limit \in Limits, offset \in Offsets :
          \E reply \in List(orgID, repositoryConfigUUID, limit, offset) :
             call' = [call EXCEPT ![p] = reply]
    /\ UNCHANGED <<rpms, repositories_rpms, repositories, repository_configurations, pagedRpmInsertsLimit, rpms0, repositories_rpms0, repeat>>

\* A caller calls Search and Search returns
DoSearch(p) ==
    /\ call[p].pc = "idle"
    /\ \E orgID \in OrgIds, URLs \in RequestURLs, search \in Searches, limit \in Limits :
          \E reply \in Search(orgID, [URLs |-> URLs, Search |-> search], limit) :
             call' = [call EXCEPT ![p] = reply]
    /\ UNCHANGED <<rpms, repositories_rpms, repositories, repository_configurations, pagedRpmInsertsLimit, rpms0, repositories_rpms0, repeat>>

\* One caller of List and Search; nothing writes the tables
NextQuery ==
    \/ DoList(1)
    \/ DoSearch(1)
    \/ Return(1)

SpecQuery == InitQuery /\ [][NextQuery]_vars

\* ------------------------------------------------------------- the claims
\* The checksums of the rows of a table
ChecksumsOfRpms(t) == {r.checksum : r \in t}

\* The rpm uuids a repository is associated to
Members(table, repoUuid) == {m[2] : m \in {x \in table : x[1] = repoUuid}}

\* The rows whose checksum is in the manifest
RowsOf(table, pkgs) == {r \in table : r.checksum \in Range(pkgs)}

\* The checksum of the row with uuid u, 0 when there is no such row
ChecksumOfUuid(table, u) ==
    IF \E r \in table : r.uuid = u THEN (CHOOSE r \in table : r.uuid = u).checksum ELSE 0

\* The tables up to the choice of uuids: the checksums of rpms, the number of
\* its rows, and each association with the checksum of the rpm it references
View(w) ==
    [checksums |-> ChecksumsOfRpms(w.rpms),
     rows |-> Cardinality(w.rpms),
     associations |-> {<<m[1], ChecksumOfUuid(w.rpms, m[2])>> : m \in w.repositories_rpms}]

\* The tables after call c ran alone from the tables w
Alone(w, c) ==
    LET r == Run(w, InsertForRepository(c.repoUuid, c.pkgs), pagedRpmInsertsLimit, {})
    IN [rpms |-> r.rpms, repositories_rpms |-> r.repositories_rpms]

\* C1: a call of InsertForRepository that repeats the call that returned just
\* before it (same repository, same manifest, nothing in between) returns 0
\* new packages and leaves rpms and repositories_rpms as the first call left them.
C1_Idempotent ==
    (call[1].pc = "done" /\ repeat) =>
        /\ call[1].rowsAffected = 0
        /\ rpms = rpms0
        /\ repositories_rpms = repositories_rpms0

C1_Witness ==
    /\ call[1].pc = "done" /\ repeat
    /\ call[1].err = "nil"
    /\ Cardinality(Range(call[1].pkgs)) = 2
    /\ Cardinality(Members(repositories_rpms, call[1].repoUuid)) = 2

\* C2: when InsertForRepository returns no error, the rpms associated to the
\* repository are exactly the rows of rpms whose checksum is in the manifest,
\* and every checksum of the manifest has such a row.
C2_MembershipMatchesManifest ==
    (call[1].op = "InsertForRepository" /\ call[1].pc = "done" /\ call[1].err = "nil") =>
        /\ Members(repositories_rpms, call[1].repoUuid) = UuidsOfRpms(RowsOf(rpms, call[1].pkgs))
        /\ Range(call[1].pkgs) \subseteq ChecksumsOfRpms(rpms)

C2_Witness ==
    /\ call[1].op = "InsertForRepository" /\ call[1].pc = "done" /\ call[1].err = "nil"
    /\ Members(repositories_rpms0, call[1].repoUuid) \ Members(repositories_rpms, call[1].repoUuid) # {}
    /\ Members(repositories_rpms, call[1].repoUuid) \ Members(repositories_rpms0, call[1].repoUuid) # {}
    /\ \E r \in rpms0 : r.uuid \notin UuidsOfRepositoriesRpms(repositories_rpms0)

\* C3: no two rows of rpms share a checksum; and when InsertForRepository
\* succeeds with a checksum that another repository was already associated to,
\* there is one row for that checksum and both repositories are associated to it.
C3_DedupByChecksum ==
    /\ \A r1, r2 \in rpms : r1.checksum = r2.checksum => r1 = r2
    /\ (call[1].op = "InsertForRepository" /\ call[1].pc = "done" /\ call[1].err = "nil") =>
          \A other \in Repositories \ {call[1].repoUuid} :
            \A old \in {r \in RowsOf(rpms0, call[1].pkgs) :
                             r.uuid \in Members(repositories_rpms0, other)} :
               /\ {r \in rpms : r.checksum = old.checksum} = {old}
               /\ <<other, old.uuid>> \in repositories_rpms
               /\ <<call[1].repoUuid, old.uuid>> \in repositories_rpms

C3_Witness ==
    /\ call[1].op = "InsertForRepository" /\ call[1].pc = "done" /\ call[1].err = "nil"
    /\ call[1].repoUuid = "r2"
    /\ \E old \in RowsOf(rpms0, call[1].pkgs) :
          /\ old.uuid \in Members(repositories_rpms0, "r1")
          /\ old.uuid \notin Members(repositories_rpms0, "r2")
          /\ old.uuid \in Members(repositories_rpms, "r1") \cap Members(repositories_rpms, "r2")

\* C4: once deleteUnneeded has returned, an rpm whose association to the
\* repository the call removed is gone from rpms if and only if no row of
\* repositories_rpms references it.
C4_OrphanCollection ==
    (/\ call[1].op = "InsertForRepository"
     /\ \/ call[1].pc = "createAssociations"
        \/ call[1].pc = "done" /\ call[1].err \in {"nil", "Create"}) =>
        \A u \in call[1].rpmsToDelete :
           /\ u \in UuidsOfRpms(rpms0)
           /\ <<call[1].repoUuid, u>> \notin repositories_rpms
           /\ u \notin UuidsOfRpms(rpms) <=> u \notin UuidsOfRepositoriesRpms(repositories_rpms)

C4_Witness ==
    /\ call[1].op = "InsertForRepository" /\ call[1].pc = "done"
    /\ \E u1, u2 \in call[1].rpmsToDelete :
          /\ u1 \notin UuidsOfRpms(rpms)
          /\ u2 \in UuidsOfRpms(rpms)
          /\ u2 \in UuidsOfRepositoriesRpms(repositories_rpms)

\* C5: whenever no call is running, after any calls of InsertForRepository that
\* returned with or without an error, every row of rpms is referenced by a row
\* of repositories_rpms.
C5_NoDanglingPackage ==
    (\A p \in Procs : Returned(p)) =>
        \A r \in rpms : r.uuid \in UuidsOfRepositoriesRpms(repositories_rpms)

\* C6: when InsertForRepository returns an error, the rpms associated to the
\* repository are those associated before the call or those of the manifest.
C6_MembershipOldOrNew ==
    (call[1].op = "InsertForRepository" /\ call[1].pc = "done" /\ call[1].err # "nil") =>
        \/ Members(repositories_rpms, call[1].repoUuid) = Members(repositories_rpms0, call[1].repoUuid)
        \/ /\ Members(repositories_rpms, call[1].repoUuid) = UuidsOfRpms(RowsOf(rpms, call[1].pkgs))
           /\ Range(call[1].pkgs) \subseteq ChecksumsOfRpms(rpms)

\* C7: every row of repositories_rpms references a row of rpms, in every state
\* of one caller whose statements may fail anywhere, the states left by a call
\* that returned an error included; as no foreign key restores this, a row of
\* rpms is deleted only when nothing references it.
C7_ReferentialIntegrity ==
    \A m \in repositories_rpms : m[2] \in UuidsOfRpms(rpms)

C7_Witness ==
    /\ call[1].pc = "done" /\ call[1].err = "Create"
    /\ call[1].pkgs # <<>>
    /\ UuidsOfRpms(rpms0) \ UuidsOfRpms(rpms) # {}
    /\ repositories_rpms # {}

\* C8: when two interleaved calls of InsertForRepository for different
\* repositories (with manifests that are not empty) have returned, neither
\* returned an error and the tables are those that running the two calls one
\* after the other, in one of the two orders, leaves.
C8_Independent ==
    (/\ \A p \in Procs : call[p].op = "InsertForRepository" /\ call[p].pc = "done"
     /\ call[1].repoUuid # call[2].repoUuid
     /\ call[1].pkgs # <<>> /\ call[2].pkgs # <<>>) =>
        /\ \A p \in Procs : call[p].err = "nil"
        /\ LET w0 == [rpms |-> rpms0, repositories_rpms |-> repositories_rpms0]
           IN View(World) \in {View(Alone(Alone(w0, call[1]), call[2])),
                                View(Alone(Alone(w0, call[2]), call[1]))}

\* C9: when two interleaved calls of InsertForRepository whose manifests share
\* a checksum that rpms did not hold have returned, neither failed in
\* PagedRpmInsert, rpms holds one row for that checksum, and exactly one of the
\* two calls created it and counted it in the number it returns.
C9_NoInsertConflict ==
    (\A p \in Procs : call[p].op = "InsertForRepository" /\ call[p].pc = "done") =>
        \A c \in (Range(call[1].pkgs) \cap Range(call[2].pkgs)) \ ChecksumsOfRpms(rpms0) :
           /\ \A p \in Procs : call[p].err # "PagedRpmInsert"
           /\ Cardinality({r \in rpms : r.checksum = c}) = 1
           /\ Cardinality({p \in Procs : c \in ChecksumsOfRpms(call[p].created)}) = 1
           /\ \A p \in Procs : call[p].rowsAffected = Cardinality(call[p].created)

C9_Witness ==
    /\ \A p \in Procs : call[p].op = "InsertForRepository" /\ call[p].pc = "done"
    /\ \E c \in (Range(call[1].pkgs) \cap Range(call[2].pkgs)) \ ChecksumsOfRpms(rpms0) :
          /\ \A p \in Procs : c \in Range(call[p].dbPkgs)
          /\ c \in ChecksumsOfRpms(call[2].created)
          /\ call[1].rowsAffected = 0

\* C10: PagedRpmInsert of N rows with pairwise distinct checksums, M of them in
\* rpms already, returns N - M; and with any chunk size it returns the same
\* count and leaves the same rpms.
C10_BatchCorrect ==
    (call[1].op = "PagedRpmInsert" /\ call[1].pc = "done") =>
        LET pkgs == call[1].pkgs
            N == Len(pkgs)
            M == Cardinality(Range(pkgs) \cap ChecksumsOfRpms(rpms0))
        IN /\ call[1].err = "nil"
           /\ Cardinality(Range(pkgs)) = N => call[1].rowsAffected = N - M
           /\ \A chunk \in 1..(MaxLen + 1) :
                 LET r == Run([rpms |-> rpms0, repositories_rpms |-> repositories_rpms0],
                              PagedRpmInsert(pkgs), chunk, {})
                 IN /\ r.rpms = rpms
                    /\ r.c.rowsAffected = call[1].rowsAffected

C10_Witness ==
    /\ call[1].op = "PagedRpmInsert" /\ call[1].pc = "done"
    /\ Len(call[1].pkgs) = 2 /\ Cardinality(Range(call[1].pkgs)) = 2
    /\ Cardinality(Range(call[1].pkgs) \cap ChecksumsOfRpms(rpms0)) = 1
    /\ pagedRpmInsertsLimit = 1
    /\ call[1].rowsAffected = 1

\* C11: when InsertForRepository of a known repository with the empty manifest
\* has returned, the repository has no association left, every rpm the call
\* left without association is gone, and the call returned 0 new packages and
\* no error.
C11_EmptyManifest ==
    (/\ call[1].op = "InsertForRepository" /\ call[1].pc = "done"
     /\ call[1].repoUuid \in Repositories /\ call[1].pkgs = <<>>) =>
        /\ Members(repositories_rpms, call[1].repoUuid) = {}
        /\ \A u \in Members(repositories_rpms0, call[1].repoUuid) :
              u \in UuidsOfRpms(rpms) => u \in UuidsOfRepositoriesRpms(repositories_rpms)
        /\ call[1].rowsAffected = 0
        /\ call[1].err = "nil"

\* C12: when a call of InsertForRepository returned the error of a statement
\* after PagedRpmInsert and before the associations were created, and the same
\* call made again has returned no error, the tables are (up to the choice of
\* uuids) those that the call run once with no failure leaves from the tables
\* before the call that failed.
C12_RetryConverges ==
    (call[1].pc = "done" /\ repeat /\ call[1].err = "nil") =>
        View(World) = View(Alone([rpms |-> rpms0, repositories_rpms |-> repositories_rpms0], call[1]))

\* C13: when the insert of a chunk fails, InsertForRepository returns the error
\* of PagedRpmInsert with the number of rows that the chunks before it
\* inserted; no row of the failed chunk or of a later chunk is in rpms, and no
\* statement on repositories_rpms has run.
C13_InsertFailureStops ==
    (call[1].op = "InsertForRepository" /\ call[1].pc = "done"
     /\ call[1].err = "PagedRpmInsert") =>
        /\ call[1].i < Len(call[1].dbPkgs)
        /\ call[1].rowsAffected = Cardinality(call[1].created)
        /\ rpms = rpms0 \cup call[1].created
        /\ ChecksumsOfRpms(call[1].created) \subseteq Range(SubSeq(call[1].dbPkgs, 1, call[1].i))
        /\ repositories_rpms = repositories_rpms0
        /\ call[1].rpmUuids = {} /\ call[1].rpmsToDelete = {}

C13_Witness ==
    /\ call[1].op = "InsertForRepository" /\ call[1].pc = "done"
    /\ call[1].err = "PagedRpmInsert"
    /\ pagedRpmInsertsLimit = 1
    /\ Len(call[1].dbPkgs) = 2
    /\ call[1].i = 1
    /\ call[1].rowsAffected = 1
    /\ Cardinality(rpms) = Cardinality(rpms0) + 1

\* C14: when two interleaved calls of InsertForRepository for the same
\* repository with the same manifest have returned, neither returned an error,
\* and the rpms associated to the repository are exactly the rows of rpms whose
\* checksum is in the manifest, one row for each checksum of the manifest.
C14_SameManifest ==
    (/\ \A p \in Procs : call[p].op = "InsertForRepository" /\ call[p].pc = "done"
     /\ call[1].repoUuid = call[2].repoUuid
     /\ call[1].pkgs = call[2].pkgs) =>
        /\ \A p \in Procs : call[p].err = "nil"
        /\ Members(repositories_rpms, call[1].repoUuid) = UuidsOfRpms(RowsOf(rpms, call[1].pkgs))
        /\ \A c \in Range(call[1].pkgs) : Cardinality({r \in rpms : r.checksum = c}) = 1

\* C19: when InsertForRepository returns no error, each checksum of the
\* manifest, however many times the manifest repeats it, has exactly one row in
\* rpms and exactly one association of the repository, and the call returned
\* the number of distinct checksums of the manifest that rpms did not hold
\* before the call.
C19_DuplicateChecksums ==
    (call[1].op = "InsertForRepository" /\ call[1].pc = "done" /\ call[1].err = "nil") =>
        /\ \A c \in Range(call[1].pkgs) :
              /\ Cardinality({r \in rpms : r.checksum = c}) = 1
              /\ Cardinality({m \in repositories_rpms :
                                 /\ m[1] = call[1].repoUuid
                                 /\ ChecksumOfUuid(rpms, m[2]) = c}) = 1
        /\ call[1].rowsAffected = Cardinality(Range(call[1].pkgs) \ ChecksumsOfRpms(rpms0))

C19_Witness ==
    /\ call[1].op = "InsertForRepository" /\ call[1].pc = "done" /\ call[1].err = "nil"
    /\ Len(call[1].pkgs) = 2 /\ Cardinality(Range(call[1].pkgs)) = 1
    /\ Len(call[1].dbPkgs) = 2
    /\ pagedRpmInsertsLimit = DefaultPagedRpmInsertsLimit
    /\ call[1].rowsAffected = 1

\* The case of C19 where the repeated checksum falls into two chunks
C19_WitnessTwoChunks ==
    /\ call[1].op = "InsertForRepository" /\ call[1].pc = "done" /\ call[1].err = "nil"
    /\ Len(call[1].pkgs) = 2 /\ Cardinality(Range(call[1].pkgs)) = 1
    /\ Len(call[1].dbPkgs) = 2
    /\ pagedRpmInsertsLimit = 1
    /\ call[1].rowsAffected = 1

\* C20: while a call of InsertForRepository runs and when it has returned, with
\* or without an error, every other repository is associated to exactly the
\* rpms it was associated to before the call, and each of these rpms is still
\* the same row of rpms.
C20_Frame ==
    (call[1].op = "InsertForRepository") =>
        \A other \in Repositories \ {call[1].repoUuid} :
           /\ Members(repositories_rpms, other) = Members(repositories_rpms0, other)
           /\ \A r \in rpms0 : r.uuid \in Members(repositories_rpms0, other) => r \in rpms

C20_Witness ==
    /\ call[1].op = "InsertForRepository" /\ call[1].pc = "done" /\ call[1].err = "nil"
    /\ call[1].repoUuid = "r1"
    /\ \E u \in call[1].rpmsToDelete :
          /\ u \in Members(repositories_rpms0, "r1") \cap Members(repositories_rpms0, "r2")
          /\ u \in UuidsOfRpms(rpms) /\ u \in Members(repositories_rpms, "r2")
          /\ u \notin Members(repositories_rpms, "r1")
    /\ Members(repositories_rpms, "r1") # {}

\* C15: when List returns for an organization and a repository configuration
\* uuid such that no configuration with that uuid belongs to the organization
\* (a configuration of another organization, or no configuration at all), it
\* returns no rpm, the total 0 and an error: the error "is not owned", or for
\* the empty orgID, which names no organization, the error of the argument.
C15_ListNotOwned ==
    (/\ call[1].op = "List"
     /\ ~\E c \in repository_configurations :
            c.uuid = call[1].args.repositoryConfigUUID /\ c.org_id = call[1].args.orgID) =>
        /\ call[1].data = <<>>
        /\ call[1].totalRpms = 0
        /\ call[1].err = IF call[1].args.orgID = "" THEN "orgID can not be an empty string"
                                                    ELSE "is not owned"

C15_Witness ==
    /\ call[1].op = "List"
    /\ call[1].args.orgID = "other"
    /\ call[1].err = "is not owned"
    /\ \E c \in repository_configurations :
          /\ c.uuid = call[1].args.repositoryConfigUUID
          /\ c.org_id = orgIdTest
          /\ Members(repositories_rpms, c.repository_uuid) # {}
    /\ call[1].args.offset = 0

\* The names of the rows Search returned
NamesOf(data) == {data[k].package_name : k \in 1..Len(data)}

\* The organization may see the repository: it is public, or a configuration
\* of the organization is for it
VisibleTo(orgID, repo) ==
    \/ repositories[repo].public
    \/ \E c \in repository_configurations : c.org_id = orgID /\ c.repository_uuid = repo

\* The rpms of the repository whose name the search matches
Matching(repo, search) ==
    {r \in rpms : <<repo, r.uuid>> \in repositories_rpms /\ Like(r.name, search \o <<"%">>)}

\* Search returned, without error, every matching name of the repository
\* unless the limit cut the result
Matched(repo) ==
    \/ Len(call[1].data) = call[1].args.limit
    \/ \A r \in Matching(repo, call[1].args.request.Search) : r.name \in NamesOf(call[1].data)

\* C16 as claimed: when Search returns without error, a repository the
\* organization may see is matched by a URL u of the request when its stored
\* url is u with "/" appended, and also when u is its stored url with "/"
\* appended.
C16_TrailingSlashBothWays ==
    (call[1].op = "Search" /\ call[1].err = "nil") =>
        \A repo \in Repositories, k \in 1..Len(call[1].args.request.URLs) :
           LET u == call[1].args.request.URLs[k]
               stored == repositories[repo].url
           IN (VisibleTo(call[1].args.orgID, repo) /\ (stored = u \o "/" \/ u = stored \o "/"))
                 => Matched(repo)

\* C16: when Search returns without error, a repository the organization may
\* see is matched by a URL u of the request when its stored url is u or u with
\* "/" appended; and every row returned is of an rpm of a repository whose
\* stored url is a URL of the request or such a URL with "/" appended (a
\* stored url u is not matched by the request of u with "/" appended).
C16_TrailingSlashStored ==
    (call[1].op = "Search" /\ call[1].err = "nil") =>
        LET URLs == call[1].args.request.URLs
            Requested(repo) == \E k \in 1..Len(URLs) :
                                  \/ repositories[repo].url = URLs[k]
                                  \/ repositories[repo].url = URLs[k] \o "/"
        IN /\ \A repo \in Repositories :
                 (VisibleTo(call[1].args.orgID, repo) /\ Requested(repo)) => Matched(repo)
           /\ \A k \in 1..Len(call[1].data) :
                 \E repo \in Repositories :
                    /\ Requested(repo)
                    /\ \E r \in Matching(repo, call[1].args.request.Search) :
                          /\ r.name = call[1].data[k].package_name
                          /\ r.summary = call[1].data[k].summary

C16_Witness ==
    /\ call[1].op = "Search" /\ call[1].err = "nil"
    /\ call[1].args.request.URLs = <<UrlTest1>>
    /\ repositories["r1"].url = UrlTest1 \o "/"
    /\ Len(call[1].data) > 0

\* The rpms eligible for the Search that returned: those whose name the search
\* matches and that are associated to a repository the organization may see
\* and whose stored url is a URL of the request or such a URL with "/" appended
Eligible ==
    LET URLs == call[1].args.request.URLs
    IN {r \in rpms :
          \E repo \in Repositories :
             /\ r \in Matching(repo, call[1].args.request.Search)
             /\ VisibleTo(call[1].args.orgID, repo)
             /\ \E k \in 1..Len(URLs) : repositories[repo].url \in {URLs[k], URLs[k] \o "/"}}

\* C17: when Search returns without error, no two rows it returns have the
\* same name, and the summary of each row is that of the eligible rpm of that
\* name with the highest epoch.
C17_HighestEpoch ==
    (call[1].op = "Search" /\ call[1].err = "nil") =>
        /\ \A j, k \in 1..Len(call[1].data) :
              call[1].data[j].package_name = call[1].data[k].package_name => j = k
        /\ \A k \in 1..Len(call[1].data) :
              \E r \in Eligible :
                 /\ r.name = call[1].data[k].package_name
                 /\ r.summary = call[1].data[k].summary
                 /\ \A q \in Eligible : q.name = r.name => q.epoch <= r.epoch

====
